---- MODULE Spec2Model ----
(***************************************************************************)
(* BakeryStack.__init__ (cdk/bakery_stack.py) as a state machine.  The    *)
(* constructor is straight-line code: every statement declares one        *)
(* construct in the stack or attaches one rule / statement / grant to a   *)
(* construct declared before.  One action models one statement; pc is the *)
(* statement about to run.  An application may instantiate the stack      *)
(* several times (one assembly per instantiation); the previous finished  *)
(* assembly is kept in prev so that two assemblies can be compared.       *)
(***************************************************************************)
EXTENDS Integers, Sequences, FiniteSets, TLC

VARIABLES
    env,          \* os.environ: a function from the variables that are set to their values
    identifier,   \* the identifier argument of this instantiation
    azs,          \* number of availability zones (public subnets) the stack's environment yields
    run,          \* number of the instantiation in progress (1, 2, ...)
    pc,           \* label of the statement about to run, or "done"
    error,        \* "" or the exception that ended the constructor
    graph,        \* the declared constructs, in declaration order
    subnets,      \* vpc.public_subnets
    ingress,      \* security group id -> set of ingress rules
    roles,        \* role id -> its principal, inline statements, grants, managed policies
    taskDef,      \* <<>> or <<the Fargate task definition>>
    service,      \* <<>> or <<the load balanced Fargate service>>
    exports,      \* export name -> value
    idx,          \* enumerate() index of the subnet loop
    prev          \* <<>> or <<the previous finished assembly>>

vars == <<env, identifier, azs, run, pc, error, graph, subnets, ingress, roles,
          taskDef, service, exports, idx, prev>>

stackVars == <<graph, subnets, ingress, roles, taskDef, service, exports>>

(* ------------------------------ bounds -------------------------------- *)

\* number of instantiations of the stack explored in one application
MaxRuns == 2

\* max_azs=3 of the Vpc
MaxAzs == 3

\* identifier strings tried (arbitrary caller-supplied strings)
Identifiers == {"a", "b", "output-a", "test1"}

EnvVars == {"RUNNER_TOKEN_SECRET_ARN", "PREFECT_AGENT_LABELS"}

EnvValue(v) ==
    IF v = "RUNNER_TOKEN_SECRET_ARN" THEN "arn:aws:secretsmanager:secret:tok" ELSE "label1"

Environments == {[v \in S |-> EnvValue(v)] : S \in SUBSET EnvVars}

(* ------------------------------ naming -------------------------------- *)

\* f"<kind>-{identifier}", used for every construct id and export name.
\* variant: a namer that numbers names by instantiation (a process-wide registry)
nameRunSuffixed(kind, id) == kind \o "-" \o id \o ToString(run)

\* the f-string as written
name(kind, id) == kind \o "-" \o id

\* f"prefect-public-subnet-{idx}-output-{identifier}"
subnetKind(i) == "prefect-public-subnet-" \o ToString(i) \o "-output"

\* the fixed prefixes of the construct ids
IdKinds ==
    {"flow-storage-bucket", "flow-cache-bucket", "bakery-vpc", "prefect-security-group",
     "dask-security-group", "bakery-cluster", "prefect-ecs-task-role",
     "prefect-ecs-agent-task-definition", "prefect-cloud-runner-token",
     "prefect-ecs-agent-task-container", "pangeo-forge-aws-bakery-agent-repo",
     "prefect-ecs-agent-service", "prefect-ecs-task-execution-role",
     "prefect-task-role-arn-output", "prefect-cluster-arn-output",
     "prefect-storage-bucket-name-output", "prefect-cache-bucket-name-output",
     "prefect-task-execution-role-arn-output", "dask-security-group-output",
     "prefect-security-group-output", "prefect-vpc-output"}
    \cup {subnetKind(i) : i \in 0..(MaxAzs - 1)}

\* the fixed prefixes of the export names
ExportKinds ==
    {"prefect-task-role-arn-output", "prefect-cluster-arn-output",
     "prefect-storage-bucket-name-output", "prefect-cache-bucket-name-output",
     "prefect-task-execution-role-arn-output", "prefect-dask-security-group-output",
     "prefect-prefect-security-group-output", "prefect-vpc-output"}
    \cup {subnetKind(i) : i \in 0..(MaxAzs - 1)}

Kinds == IdKinds \cup ExportKinds

\* construct ids of this instantiation
bucket_id == name("flow-storage-bucket", identifier)
cache_bucket_id == name("flow-cache-bucket", identifier)
vpc_id == name("bakery-vpc", identifier)
prefect_security_group_id == name("prefect-security-group", identifier)
dask_security_group_id == name("dask-security-group", identifier)
cluster_id == name("bakery-cluster", identifier)
ecs_task_role_id == name("prefect-ecs-task-role", identifier)
task_definition_id == name("prefect-ecs-agent-task-definition", identifier)
runner_token_id == name("prefect-cloud-runner-token", identifier)
container_id == name("prefect-ecs-agent-task-container", identifier)
agent_repo_id == name("pangeo-forge-aws-bakery-agent-repo", identifier)
service_id == name("prefect-ecs-agent-service", identifier)
ecs_task_execution_role_id == name("prefect-ecs-task-execution-role", identifier)

\* resolved attribute values (deploy-time tokens), one per construct
role_arn(id) == "arn:role:" \o id
cluster_arn(id) == "arn:cluster:" \o id
bucket_name(id) == "bucketname:" \o id
security_group_id(id) == "sgid:" \o id
vpc_vpc_id(id) == "vpcid:" \o id
subnet_id(k) == "subnetid:" \o vpc_id \o ":" \o ToString(k)

(* --------------------------- statement order -------------------------- *)

\* variant: the service statements moved before the cluster and the task definition
OrderServiceFirst ==
    <<"bucket", "cache_bucket", "vpc", "prefect_security_group",
      "prefect_add_ingress_self", "dask_security_group", "dask_add_ingress_self",
      "dask_add_ingress_prefect", "ecs_task_role", "add_to_policy_iam",
      "add_to_policy_logs", "grant_bucket", "grant_cache_bucket", "add_managed_policy",
      "service", "configure_health_check", "cluster", "task_definition",
      "runner_token_secret", "agent_repo", "add_container",
      "ecs_task_execution_role", "output_task_role", "output_cluster",
      "output_bucket", "output_cache_bucket", "output_task_execution_role",
      "output_dask_security_group", "output_prefect_security_group", "output_vpc",
      "output_subnets">>

\* variant: both roles declared together, before the cluster
OrderRolesFirst ==
    <<"bucket", "cache_bucket", "vpc", "prefect_security_group",
      "prefect_add_ingress_self", "dask_security_group", "dask_add_ingress_self",
      "dask_add_ingress_prefect", "ecs_task_role", "add_to_policy_iam",
      "add_to_policy_logs", "grant_bucket", "grant_cache_bucket", "add_managed_policy",
      "ecs_task_execution_role", "cluster", "task_definition",
      "runner_token_secret", "agent_repo", "add_container", "service",
      "configure_health_check", "output_task_role", "output_cluster",
      "output_bucket", "output_cache_bucket", "output_task_execution_role",
      "output_dask_security_group", "output_prefect_security_group", "output_vpc",
      "output_subnets">>

\* the statements of __init__ in program order
Order ==
    <<"bucket", "cache_bucket", "vpc", "prefect_security_group",
      "prefect_add_ingress_self", "dask_security_group", "dask_add_ingress_self",
      "dask_add_ingress_prefect", "cluster", "ecs_task_role", "add_to_policy_iam",
      "add_to_policy_logs", "grant_bucket", "grant_cache_bucket", "add_managed_policy",
      "task_definition", "runner_token_secret", "agent_repo", "add_container",
      "service", "configure_health_check", "ecs_task_execution_role",
      "output_task_role", "output_cluster", "output_bucket", "output_cache_bucket",
      "output_task_execution_role", "output_dask_security_group",
      "output_prefect_security_group", "output_vpc", "output_subnets">>

Pos(l) == IF l = "done" THEN Len(Order) + 1 ELSE CHOOSE i \in 1..Len(Order) : Order[i] = l

Succ(l) == IF Pos(l) < Len(Order) THEN Order[Pos(l) + 1] ELSE "done"

\* statement l has run to completion in this assembly
After(l) == Pos(pc) > Pos(l)

At(l) == pc = l /\ error = ""

Declared(id) == \E i \in 1..Len(graph) : graph[i].id = id

\* one declared construct: its kind, construct id, the constructs it is given, one scalar property
Resource(kind, id, refs, value) == [kind |-> kind, id |-> id, refs |-> refs, value |-> value]

\* a statement that declares one construct and does nothing else
Declare(l, r) ==
    /\ At(l)
    /\ graph' = Append(graph, r)
    /\ pc' = Succ(l)
    /\ UNCHANGED <<env, identifier, azs, run, error, idx, prev>>

\* core.CfnOutput(self, id=..., export_name=..., value=...)
CfnOutput(l, id, export_name, value, ref) ==
    /\ Declare(l, Resource("Output", id, {ref}, export_name))
    /\ exports' = (export_name :> value) @@ exports
    /\ UNCHANGED <<subnets, ingress, roles, taskDef, service>>

\* os.environ[v] raised KeyError: the constructor ends with the exception
KeyError(v) ==
    /\ error' = "KeyError: " \o v
    /\ UNCHANGED <<env, identifier, azs, run, pc, idx, prev, stackVars>>

(* ------------------------------ storage ------------------------------- *)

\* bucket = aws_s3.Bucket(self, id=f"flow-storage-bucket-{identifier}", ...)
bucket ==
    /\ Declare("bucket", Resource("Bucket", bucket_id, {}, "DESTROY"))
    /\ UNCHANGED <<subnets, ingress, roles, taskDef, service, exports>>

\* cache_bucket = aws_s3.Bucket(self, id=f"flow-cache-bucket-{identifier}", ...)
cache_bucket ==
    /\ Declare("cache_bucket", Resource("Bucket", cache_bucket_id, {}, "DESTROY"))
    /\ UNCHANGED <<subnets, ingress, roles, taskDef, service, exports>>

(* ------------------------------ network ------------------------------- *)

\* vpc = aws_ec2.Vpc(...): one public subnet per availability zone, at most max_azs
vpc ==
    /\ Declare("vpc", Resource("Vpc", vpc_id, {}, "10.0.0.0/16"))
    /\ subnets' = [k \in 1..azs |-> subnet_id(k - 1)]
    /\ UNCHANGED <<ingress, roles, taskDef, service, exports>>

\* SecurityGroup.add_ingress_rule(peer, Port.all_traffic())
add_ingress_rule(sg, peer) ==
    ingress' = [ingress EXCEPT ![sg] = @ \cup {[source |-> peer, port |-> "all_traffic"]}]

\* a statement that changes a construct declared before and declares nothing
Step(l) ==
    /\ At(l)
    /\ pc' = Succ(l)
    /\ UNCHANGED <<env, identifier, azs, run, error, idx, prev>>

prefect_security_group ==
    /\ Declare("prefect_security_group",
               Resource("SecurityGroup", prefect_security_group_id, {vpc_id}, "allow_all_outbound"))
    /\ ingress' = (prefect_security_group_id :> {}) @@ ingress
    /\ UNCHANGED <<subnets, roles, taskDef, service, exports>>

prefect_add_ingress_self ==
    /\ Step("prefect_add_ingress_self")
    /\ add_ingress_rule(prefect_security_group_id, prefect_security_group_id)
    /\ UNCHANGED <<graph, subnets, roles, taskDef, service, exports>>

dask_security_group ==
    /\ Declare("dask_security_group",
               Resource("SecurityGroup", dask_security_group_id, {vpc_id}, "allow_all_outbound"))
    /\ ingress' = (dask_security_group_id :> {}) @@ ingress
    /\ UNCHANGED <<subnets, roles, taskDef, service, exports>>

dask_add_ingress_self ==
    /\ Step("dask_add_ingress_self")
    /\ add_ingress_rule(dask_security_group_id, dask_security_group_id)
    /\ UNCHANGED <<graph, subnets, roles, taskDef, service, exports>>

\* variant: the cross-group statement repeating the self rule
dask_add_ingress_dask_again ==
    /\ Step("dask_add_ingress_prefect")
    /\ add_ingress_rule(dask_security_group_id, dask_security_group_id)
    /\ UNCHANGED <<graph, subnets, roles, taskDef, service, exports>>

\* dask_security_group.add_ingress_rule(prefect_security_group, ...)
dask_add_ingress_prefect ==
    /\ Step("dask_add_ingress_prefect")
    /\ add_ingress_rule(dask_security_group_id, prefect_security_group_id)
    /\ UNCHANGED <<graph, subnets, roles, taskDef, service, exports>>

(* ------------------------- cluster and identity ----------------------- *)

cluster ==
    /\ Declare("cluster", Resource("Cluster", cluster_id, {vpc_id}, ""))
    /\ UNCHANGED <<subnets, ingress, roles, taskDef, service, exports>>

\* aws_iam.Role(self, id, assumed_by=ServicePrincipal(...), managed_policies=...)
Role(principal, managed) ==
    [assumed_by |-> principal, statements |-> {}, grants |-> {}, managed |-> managed]

ecs_task_role ==
    /\ Declare("ecs_task_role", Resource("Role", ecs_task_role_id, {}, "ecs-tasks.amazonaws.com"))
    /\ roles' = (ecs_task_role_id :> Role("ecs-tasks.amazonaws.com", {})) @@ roles
    /\ UNCHANGED <<subnets, ingress, taskDef, service, exports>>

PolicyStatement(resources, actions) == [resources |-> resources, actions |-> actions]

\* Role.add_to_policy(statement)
add_to_policy(role, statement) ==
    roles' = [roles EXCEPT ![role].statements = @ \cup {statement}]

add_to_policy_iam ==
    /\ Step("add_to_policy_iam")
    /\ add_to_policy(ecs_task_role_id, PolicyStatement("*", "iam:ListRoleTags"))
    /\ UNCHANGED <<graph, subnets, ingress, taskDef, service, exports>>

add_to_policy_logs ==
    /\ Step("add_to_policy_logs")
    /\ add_to_policy(ecs_task_role_id,
                     PolicyStatement("arn:aws:logs:region:account:log-group:dask-ecs*",
                                     "logs:GetLogEvents"))
    /\ UNCHANGED <<graph, subnets, ingress, taskDef, service, exports>>

\* Bucket.grant_read_write(role)
grant_read_write(b, role) ==
    roles' = [roles EXCEPT ![role].grants = @ \cup {[bucket |-> b, access |-> "read_write"]}]

grant_bucket ==
    /\ Step("grant_bucket")
    /\ grant_read_write(bucket_id, ecs_task_role_id)
    /\ UNCHANGED <<graph, subnets, ingress, taskDef, service, exports>>

\* variant: the second grant given on the data bucket again
grant_cache_bucket_twice ==
    /\ Step("grant_cache_bucket")
    /\ grant_read_write(bucket_id, ecs_task_role_id)
    /\ UNCHANGED <<graph, subnets, ingress, taskDef, service, exports>>

grant_cache_bucket ==
    /\ Step("grant_cache_bucket")
    /\ grant_read_write(cache_bucket_id, ecs_task_role_id)
    /\ UNCHANGED <<graph, subnets, ingress, taskDef, service, exports>>

\* ecs_task_role.add_managed_policy(ManagedPolicy.from_aws_managed_policy_name(...))
add_managed_policy ==
    /\ Step("add_managed_policy")
    /\ roles' = [roles EXCEPT ![ecs_task_role_id].managed = @ \cup {"AmazonECS_FullAccess"}]
    /\ UNCHANGED <<graph, subnets, ingress, taskDef, service, exports>>

(* --------------------- task definition and service -------------------- *)

FargateTaskDefinition(task_role, execution_role) ==
    [id |-> task_definition_id, cpu |-> 512, memory_limit_mib |-> 2048,
     task_role |-> task_role, execution_role |-> execution_role, containers |-> <<>>]

\* variant: the task definition also given execution_role=ecs_task_execution_role
task_definition_with_execution_role ==
    /\ Declare("task_definition",
               Resource("TaskDefinition", task_definition_id,
                        {ecs_task_role_id, ecs_task_execution_role_id}, ""))
    /\ taskDef' = <<FargateTaskDefinition(ecs_task_role_id, ecs_task_execution_role_id)>>
    /\ UNCHANGED <<subnets, ingress, roles, service, exports>>

\* aws_ecs.FargateTaskDefinition(self, id, cpu=512, memory_limit_mib=2048, task_role=ecs_task_role)
\* (no execution_role argument is passed: "")
task_definition ==
    /\ Declare("task_definition",
               Resource("TaskDefinition", task_definition_id, {ecs_task_role_id}, ""))
    /\ taskDef' = <<FargateTaskDefinition(ecs_task_role_id, "")>>
    /\ UNCHANGED <<subnets, ingress, roles, service, exports>>

\* Secret.from_secret_arn(self, id, secret_arn=os.environ["RUNNER_TOKEN_SECRET_ARN"]):
\* the argument is evaluated first, so a missing variable raises before the declaration
runner_token_secret ==
    /\ At("runner_token_secret")
    /\ \/ /\ "RUNNER_TOKEN_SECRET_ARN" \in DOMAIN env
          /\ Declare("runner_token_secret",
                     Resource("Secret", runner_token_id, {}, env["RUNNER_TOKEN_SECRET_ARN"]))
          /\ UNCHANGED <<subnets, ingress, roles, taskDef, service, exports>>
       \/ /\ "RUNNER_TOKEN_SECRET_ARN" \notin DOMAIN env
          /\ KeyError("RUNNER_TOKEN_SECRET_ARN")

\* aws_ecr.Repository.from_repository_name(self, id, repository_name=...): the image
\* argument of add_container, evaluated before its environment argument
agent_repo ==
    /\ Declare("agent_repo",
               Resource("Repository", agent_repo_id, {}, "pangeo-forge-aws-bakery-agent"))
    /\ UNCHANGED <<subnets, ingress, roles, taskDef, service, exports>>

ContainerDefinition ==
    [id |-> container_id,
     image |-> agent_repo_id,
     port_mappings |-> {[container_port |-> 8080, host_port |-> 8080]},
     logging |-> "ecs-agent",
     environment |-> [v \in {"PREFECT__CLOUD__AGENT__LABELS"} |-> env["PREFECT_AGENT_LABELS"]],
     secrets |-> {[variable |-> "PREFECT__CLOUD__AGENT__AUTH_TOKEN",
                   secret |-> runner_token_id, field |-> "RUNNER_TOKEN"]},
     command |-> <<"--cluster", cluster_arn(cluster_id),
                   "--task-role-arn", role_arn(ecs_task_role_id)>>]

\* prefect_ecs_agent_task_definition.add_container(...)
add_container ==
    /\ At("add_container")
    /\ \/ /\ "PREFECT_AGENT_LABELS" \in DOMAIN env
          /\ Declare("add_container",
                     Resource("Container", container_id,
                              {task_definition_id, agent_repo_id, runner_token_id,
                               cluster_id, ecs_task_role_id}, ""))
          /\ taskDef' = <<[taskDef[1] EXCEPT !.containers = Append(@, ContainerDefinition)]>>
          /\ UNCHANGED <<subnets, ingress, roles, service, exports>>
       \/ /\ "PREFECT_AGENT_LABELS" \notin DOMAIN env
          /\ KeyError("PREFECT_AGENT_LABELS")

\* aws_ecs_patterns.ApplicationLoadBalancedFargateService(...)
prefect_ecs_agent_service ==
    /\ Declare("service",
               Resource("Service", service_id,
                        {task_definition_id, cluster_id, prefect_security_group_id}, ""))
    /\ service' = <<[id |-> service_id, assign_public_ip |-> TRUE, desired_count |-> 1,
                     task_definition |-> task_definition_id, cluster |-> cluster_id,
                     security_groups |-> {prefect_security_group_id},
                     health_check |-> [path |-> "/", port |-> "traffic-port"]]>>
    /\ UNCHANGED <<subnets, ingress, roles, taskDef, exports>>

\* prefect_ecs_agent_service.target_group.configure_health_check(path=..., port=...)
configure_health_check ==
    /\ Step("configure_health_check")
    /\ service' = <<[service[1] EXCEPT !.health_check = [path |-> "/api/health", port |-> "8080"]]>>
    /\ UNCHANGED <<graph, subnets, ingress, roles, taskDef, exports>>

ecs_task_execution_role ==
    /\ Declare("ecs_task_execution_role",
               Resource("Role", ecs_task_execution_role_id, {}, "ecs-tasks.amazonaws.com"))
    /\ roles' = (ecs_task_execution_role_id :>
                   Role("ecs-tasks.amazonaws.com",
                        {"service-role/AmazonECSTaskExecutionRolePolicy"})) @@ roles
    /\ UNCHANGED <<subnets, ingress, taskDef, service, exports>>

(* ------------------------------ exports ------------------------------- *)

output_task_role ==
    CfnOutput("output_task_role",
              name("prefect-task-role-arn-output", identifier),
              name("prefect-task-role-arn-output", identifier),
              role_arn(ecs_task_role_id), ecs_task_role_id)

output_cluster ==
    CfnOutput("output_cluster",
              name("prefect-cluster-arn-output", identifier),
              name("prefect-cluster-arn-output", identifier),
              cluster_arn(cluster_id), cluster_id)

output_bucket ==
    CfnOutput("output_bucket",
              name("prefect-storage-bucket-name-output", identifier),
              name("prefect-storage-bucket-name-output", identifier),
              bucket_name(bucket_id), bucket_id)

output_cache_bucket ==
    CfnOutput("output_cache_bucket",
              name("prefect-cache-bucket-name-output", identifier),
              name("prefect-cache-bucket-name-output", identifier),
              bucket_name(cache_bucket_id), cache_bucket_id)

output_task_execution_role ==
    CfnOutput("output_task_execution_role",
              name("prefect-task-execution-role-arn-output", identifier),
              name("prefect-task-execution-role-arn-output", identifier),
              role_arn(ecs_task_execution_role_id), ecs_task_execution_role_id)

output_dask_security_group ==
    CfnOutput("output_dask_security_group",
              name("dask-security-group-output", identifier),
              name("prefect-dask-security-group-output", identifier),
              security_group_id(dask_security_group_id), dask_security_group_id)

output_prefect_security_group ==
    CfnOutput("output_prefect_security_group",
              name("prefect-security-group-output", identifier),
              name("prefect-prefect-security-group-output", identifier),
              security_group_id(prefect_security_group_id), prefect_security_group_id)

output_vpc ==
    CfnOutput("output_vpc",
              name("prefect-vpc-output", identifier),
              name("prefect-vpc-output", identifier),
              vpc_vpc_id(vpc_id), vpc_id)

\* variant: the loop body with enumerate() counting from 1
SubnetOutputFromOne(i, k) ==
    /\ graph' = Append(graph, Resource("Output", name(subnetKind(i + 1), identifier),
                                       {vpc_id}, name(subnetKind(i + 1), identifier)))
    /\ exports' = (name(subnetKind(i + 1), identifier) :> subnets[k]) @@ exports

\* one iteration of `for idx, public_subnet in enumerate(vpc.public_subnets)` exporting
\* the subnet at position k (from 1) under the index i
SubnetOutput(i, k) ==
    /\ graph' = Append(graph, Resource("Output", name(subnetKind(i), identifier),
                                       {vpc_id}, name(subnetKind(i), identifier)))
    /\ exports' = (name(subnetKind(i), identifier) :> subnets[k]) @@ exports

\* the loop: an iteration while subnets remain, the exit when they are exhausted
output_subnets ==
    /\ At("output_subnets")
    /\ \/ /\ idx < Len(subnets)
          /\ SubnetOutput(idx, idx + 1)
          /\ idx' = idx + 1
          /\ UNCHANGED <<env, identifier, azs, run, pc, error, prev,
                         subnets, ingress, roles, taskDef, service>>
       \/ /\ idx >= Len(subnets)
          /\ pc' = Succ("output_subnets")
          /\ UNCHANGED <<env, identifier, azs, run, error, idx, prev, stackVars>>

(* --------------------------- instantiation ---------------------------- *)

Assembly ==
    [identifier |-> identifier, azs |-> azs, graph |-> graph, subnets |-> subnets,
     ingress |-> ingress, roles |-> roles, taskDef |-> taskDef, service |-> service,
     exports |-> exports]

\* BakeryStack(scope, construct_id, identifier): a further instantiation in the same
\* process (same os.environ) once the previous constructor has returned
NewStack ==
    /\ pc = "done"
    /\ error = ""
    /\ run < MaxRuns
    /\ prev' = <<Assembly>>
    /\ run' = run + 1
    /\ identifier' \in Identifiers
    /\ azs' \in 1..MaxAzs
    /\ pc' = Order[1]
    /\ idx' = 0
    /\ graph' = <<>>
    /\ subnets' = <<>>
    /\ ingress' = <<>>
    /\ roles' = <<>>
    /\ taskDef' = <<>>
    /\ service' = <<>>
    /\ exports' = <<>>
    /\ UNCHANGED <<env, error>>

Init ==
    /\ env \in Environments
    /\ identifier \in Identifiers
    /\ azs \in 1..MaxAzs
    /\ run = 1
    /\ pc = Order[1]
    /\ error = ""
    /\ graph = <<>>
    /\ subnets = <<>>
    /\ ingress = <<>>
    /\ roles = <<>>
    /\ taskDef = <<>>
    /\ service = <<>>
    /\ exports = <<>>
    /\ idx = 0
    /\ prev = <<>>

Next ==
    \/ bucket
    \/ cache_bucket
    \/ vpc
    \/ prefect_security_group
    \/ prefect_add_ingress_self
    \/ dask_security_group
    \/ dask_add_ingress_self
    \/ dask_add_ingress_prefect
    \/ cluster
    \/ ecs_task_role
    \/ add_to_policy_iam
    \/ add_to_policy_logs
    \/ grant_bucket
    \/ grant_cache_bucket
    \/ add_managed_policy
    \/ task_definition
    \/ runner_token_secret
    \/ agent_repo
    \/ add_container
    \/ prefect_ecs_agent_service
    \/ configure_health_check
    \/ ecs_task_execution_role
    \/ output_task_role
    \/ output_cluster
    \/ output_bucket
    \/ output_cache_bucket
    \/ output_task_execution_role
    \/ output_dask_security_group
    \/ output_prefect_security_group
    \/ output_vpc
    \/ output_subnets
    \/ NewStack

Spec == Init /\ [][Next]_vars

(* ============================== claims ================================ *)

Failed == error # ""

Index(id) == CHOOSE i \in 1..Len(graph) : graph[i].id = id

\* a is declared, and earlier than b
Before(a, b) == Declared(a) /\ Declared(b) /\ Index(a) < Index(b)

\* every construct id and export name of an assembly
Names(g, e) == {g[i].id : i \in 1..Len(g)} \cup DOMAIN e

(* C1: when PREFECT_AGENT_LABELS or RUNNER_TOKEN_SECRET_ARN is absent, the
   assembly fails before any resource has been declared: no failed state has
   a declared resource. *)
C1_FailsBeforeAnyResource == Failed => graph = <<>>

(* C2: for two distinct identifiers, the construct ids and export names of
   the two assemblies are disjoint. *)
C2_DisjointNames ==
    (pc = "done" /\ Len(prev) = 1 /\ prev[1].identifier # identifier)
        => Names(graph, exports) \cap Names(prev[1].graph, prev[1].exports) = {}

(* C3: the naming function is injective in (kind, identifier): equal names
   come from the same kind and the same identifier. *)
C3_NameInjective ==
    Len(prev) = 1 =>
        \A k1, k2 \in Kinds :
            name(k1, identifier) = name(k2, prev[1].identifier)
                => (k1 = k2 /\ identifier = prev[1].identifier)

FixedExports ==
    (name("prefect-task-role-arn-output", identifier) :> role_arn(ecs_task_role_id))
    @@ (name("prefect-cluster-arn-output", identifier) :> cluster_arn(cluster_id))
    @@ (name("prefect-storage-bucket-name-output", identifier) :> bucket_name(bucket_id))
    @@ (name("prefect-cache-bucket-name-output", identifier) :> bucket_name(cache_bucket_id))
    @@ (name("prefect-task-execution-role-arn-output", identifier)
            :> role_arn(ecs_task_execution_role_id))
    @@ (name("prefect-dask-security-group-output", identifier)
            :> security_group_id(dask_security_group_id))
    @@ (name("prefect-prefect-security-group-output", identifier)
            :> security_group_id(prefect_security_group_id))
    @@ (name("prefect-vpc-output", identifier) :> vpc_vpc_id(vpc_id))

SubnetExports == {name(subnetKind(i), identifier) : i \in 0..(Len(subnets) - 1)}

(* C4: after a successful assembly over N public subnets (1 <= N <= 3) the
   export map has exactly 8 + N entries: the eight fixed ones with their
   values, and N public-subnet entries with the indices 0..N-1, entry k
   carrying the id of the k-th public subnet. *)
C4_ExportMap ==
    pc = "done" =>
        /\ Len(subnets) = azs
        /\ azs \in 1..3
        /\ Cardinality(DOMAIN FixedExports) = 8
        /\ Cardinality(SubnetExports) = azs
        /\ DOMAIN exports = DOMAIN FixedExports \cup SubnetExports
        /\ Cardinality(DOMAIN exports) = 8 + azs
        /\ \A n \in DOMAIN FixedExports : exports[n] = FixedExports[n]
        /\ \A i \in 0..(azs - 1) : exports[name(subnetKind(i), identifier)] = subnets[i + 1]
        /\ \A i, j \in 1..azs : subnets[i] = subnets[j] => i = j
        /\ Cardinality({i \in 1..Len(graph) : graph[i].kind = "Output"}) = 8 + azs

C4_ThreeSubnetsExported ==
    /\ pc = "done"
    /\ azs = 3
    /\ Cardinality(SubnetExports \cap DOMAIN exports) = 3

\* the worker group has an ingress rule whose source is the agent group
HasAgentRule ==
    /\ dask_security_group_id \in DOMAIN ingress
    /\ \E r \in ingress[dask_security_group_id] : r.source = prefect_security_group_id

(* C5 as stated: in every state in which the worker security group exists its
   rule set includes the rule whose source is the agent group, and the rule is
   never present while the agent group is not constructed. *)
C5_Original ==
    /\ Declared(dask_security_group_id) => HasAgentRule
    /\ HasAgentRule => Declared(prefect_security_group_id)

(* C5 amended: in every state after the statement that adds the cross-group
   rule has run, the worker group's rule set includes the rule whose source
   is the agent group (it is never removed); the rule is never present while
   the agent group is not constructed. *)
C5_RuleAfterAdd ==
    /\ After("dask_add_ingress_prefect")
          => (Declared(dask_security_group_id) /\ HasAgentRule)
    /\ HasAgentRule => (Declared(prefect_security_group_id)
                        /\ Before(prefect_security_group_id, dask_security_group_id))

C5_RuleAdded ==
    /\ After("dask_add_ingress_prefect")
    /\ HasAgentRule
    /\ ingress[dask_security_group_id] =
          {[source |-> dask_security_group_id, port |-> "all_traffic"],
           [source |-> prefect_security_group_id, port |-> "all_traffic"]}

ReadWrite(b) == [bucket |-> b, access |-> "read_write"]

(* C6: after a successful assembly the execution role, which is the task
   definition's task role, has read-write grants on exactly the data bucket
   and the cache bucket, the inline statements iam:ListRoleTags on * and
   logs:GetLogEvents on the dask-ecs log groups, and the managed policy
   AmazonECS_FullAccess; once attached, none of them is absent in a later
   state of the assembly. *)
C6_ExecutionRolePolicy ==
    /\ pc = "done" =>
          /\ roles[ecs_task_role_id].grants = {ReadWrite(bucket_id), ReadWrite(cache_bucket_id)}
          /\ Cardinality({g.bucket : g \in roles[ecs_task_role_id].grants}) = 2
          /\ roles[ecs_task_role_id].assumed_by = "ecs-tasks.amazonaws.com"
          /\ taskDef[1].task_role = ecs_task_role_id
    /\ After("add_to_policy_iam") =>
          PolicyStatement("*", "iam:ListRoleTags") \in roles[ecs_task_role_id].statements
    /\ After("add_to_policy_logs") =>
          PolicyStatement("arn:aws:logs:region:account:log-group:dask-ecs*", "logs:GetLogEvents")
              \in roles[ecs_task_role_id].statements
    /\ After("grant_bucket") => ReadWrite(bucket_id) \in roles[ecs_task_role_id].grants
    /\ After("grant_cache_bucket") => ReadWrite(cache_bucket_id) \in roles[ecs_task_role_id].grants
    /\ After("add_managed_policy") => "AmazonECS_FullAccess" \in roles[ecs_task_role_id].managed

C6_RoleComplete ==
    /\ pc = "done"
    /\ Cardinality(roles[ecs_task_role_id].grants) = 2
    /\ Cardinality(roles[ecs_task_role_id].statements) = 2
    /\ roles[ecs_task_role_id].managed = {"AmazonECS_FullAccess"}

SameInputs == Len(prev) = 1 /\ prev[1].identifier = identifier /\ prev[1].azs = azs

(* C7: two assemblies with identical inputs (identifier, environment values,
   number of public subnets) produce the same graph: the same declarations in
   the same order with the same names, rules, grants, bindings and exports. *)
C7_Deterministic == (pc = "done" /\ SameInputs) => Assembly = prev[1]

C7_SecondRunDone == pc = "done" /\ SameInputs /\ run = 2 /\ Len(graph) > 20

\* the stage the claim gives a resource (0: a resource the claim's order does not name)
ClaimedStage(r) ==
    CASE r.kind = "Vpc" -> 1
      [] r.kind = "SecurityGroup" -> 2
      [] r.kind \in {"Role", "Secret"} -> 3
      [] r.kind \in {"Cluster", "TaskDefinition"} -> 4
      [] r.kind = "Service" -> 5
      [] r.kind = "Output" -> 6
      [] OTHER -> 0

(* C8 as stated: resources are declared in the stage order Network, Security
   Groups, Identity/Secret (both roles, the secret reference), Cluster and
   TaskDefinition, Service, Exports: none of an earlier stage is declared
   after one of a later stage. *)
C8_Original ==
    \A i, j \in 1..Len(graph) :
        (i < j /\ ClaimedStage(graph[i]) > 0 /\ ClaimedStage(graph[j]) > 0)
            => ClaimedStage(graph[i]) <= ClaimedStage(graph[j])

\* the stage a resource has in the order of the constructor
DeclaredStage(r) ==
    CASE r.kind = "Vpc" -> 1
      [] r.kind = "SecurityGroup" -> 2
      [] r.kind = "Cluster" -> 3
      [] r.kind = "Role" /\ r.id = ecs_task_role_id -> 4
      [] r.kind = "TaskDefinition" -> 5
      [] r.kind = "Secret" -> 6
      [] r.kind = "Service" -> 7
      [] r.kind = "Role" /\ r.id = ecs_task_execution_role_id -> 8
      [] r.kind = "Output" -> 9
      [] OTHER -> 0

(* C8 amended: resources are declared in the stage order Network, Security
   Groups, Cluster, execution role, TaskDefinition, secret reference, Service,
   task-execution role, Exports: none of an earlier stage of this order is
   declared after one of a later stage. *)
C8_StageOrder ==
    \A i, j \in 1..Len(graph) :
        (i < j /\ DeclaredStage(graph[i]) > 0 /\ DeclaredStage(graph[j]) > 0)
            => DeclaredStage(graph[i]) <= DeclaredStage(graph[j])

C8_AllStagesDeclared ==
    /\ pc = "done"
    /\ {DeclaredStage(graph[i]) : i \in 1..Len(graph)} = 0..9
    /\ Before(cluster_id, ecs_task_role_id)
    /\ Before(task_definition_id, runner_token_id)
    /\ Before(service_id, ecs_task_execution_role_id)

(* C9: the service is never declared while its task definition, its cluster or
   the agent security group it is attached to is not declared; the container
   (whose command embeds the cluster ARN and the execution role ARN) is only
   declared once the cluster and the execution role are. *)
C9_ServiceAfterDependencies ==
    /\ Declared(service_id) =>
          /\ Before(task_definition_id, service_id)
          /\ Before(cluster_id, service_id)
          /\ Before(prefect_security_group_id, service_id)
          /\ service[1].task_definition = task_definition_id
          /\ service[1].cluster = cluster_id
          /\ service[1].security_groups = {prefect_security_group_id}
    /\ Declared(container_id) =>
          /\ Before(cluster_id, container_id)
          /\ Before(ecs_task_role_id, container_id)
          /\ taskDef[1].containers[1].command =
                <<"--cluster", cluster_arn(cluster_id),
                  "--task-role-arn", role_arn(ecs_task_role_id)>>

C9_ServiceDeclared ==
    /\ Declared(service_id)
    /\ Declared(container_id)
    /\ Len(service) = 1
    /\ Len(taskDef[1].containers) = 1

(* C10: the task-execution role is declared only after the service; no
   resource other than its export entry is given it; it has no inline
   statement and no bucket grant; the task definition is given the execution
   (task) role as its task role and no other role. *)
C10_TaskExecutionRoleOnlyExported ==
    /\ Declared(ecs_task_execution_role_id) => Before(service_id, ecs_task_execution_role_id)
    /\ \A i \in 1..Len(graph) :
          ecs_task_execution_role_id \in graph[i].refs
              => /\ graph[i].kind = "Output"
                 /\ graph[i].id = name("prefect-task-execution-role-arn-output", identifier)
    /\ ecs_task_execution_role_id \in DOMAIN roles =>
          /\ roles[ecs_task_execution_role_id].statements = {}
          /\ roles[ecs_task_execution_role_id].grants = {}
    /\ Len(taskDef) = 1 =>
          /\ taskDef[1].task_role = ecs_task_role_id
          /\ taskDef[1].execution_role = ""
    /\ pc = "done" =>
          Cardinality({i \in 1..Len(graph) : ecs_task_execution_role_id \in graph[i].refs}) = 1

C10_RoleExported ==
    /\ pc = "done"
    /\ Declared(ecs_task_execution_role_id)
    /\ exports[name("prefect-task-execution-role-arn-output", identifier)]
          = role_arn(ecs_task_execution_role_id)

====
